---- MODULE Spec2Model ----
(***************************************************************************)
(* Model of light_modulation_crescontrol.                                  *)
(*                                                                         *)
(*  - the provisioning protocol send_schedules_to_crescontrol, with        *)
(*    wait_for_cc_frequency_recovery (Spec, FairSpec);                     *)
(*  - the curve algebra on time/intensity series: parallelize, sum,        *)
(*    substract, gate (AlgebraSpec);                                       *)
(*  - the point reduction clean_and_simplify_to_desired_points             *)
(*    (ReduceSpec), its elision of flats (ElisionSpec);                    *)
(*  - the generation of schedules (GenerationSpec) and the series          *)
(*    functions applied one after the other (SeriesSpec);                  *)
(*  - the websockets to the controller and to the remote server            *)
(*    (ConnectionSpec, ServerSpec) and main (MainSpec).                    *)
(*                                                                         *)
(* Times and intensities are exact rationals [n |-> numerator,             *)
(* d |-> denominator > 0] in lowest terms: the arithmetic of the series    *)
(* functions is modelled as exact arithmetic (IEEE-754 rounding of the     *)
(* Python floats is not modelled).                                         *)
(***************************************************************************)
EXTENDS Integers, Sequences, FiniteSets, TLC

VARIABLES
    \* send_schedules_to_crescontrol
    pc,                \* position in send_schedules_to_crescontrol
    idx,               \* index of the schedule of the current for-iteration
    status,            \* local variable status
    global_status,     \* local variable global_status
    wait_status,       \* local variable status of wait_for_cc_frequency_recovery
    sent,              \* per schedule: the commands sent on the websocket for it
    log,               \* per schedule: the transitions attempted and their outcome
    samples,           \* the last three frequency samples of the current wait
    \* curve algebra
    data_points_seconds_1,
    data_points_seconds_2,
    op,                \* the function applied, with its arguments
    out,               \* its result
    \* point reduction
    rpc,               \* position in clean_and_simplify_to_desired_points
    data_points_seconds,
    number_of_data_points,
    potential_data_points_seconds,
    iterations,        \* number of loop iterations made
    \* websockets and main
    ws_on_cc,          \* global ws_on_cc: 0 is None, else the connection held
    ws_on_server,      \* global ws_on_server: 0 is None, else the connection held
    token,             \* global token: "None" or the token obtained
    created,           \* number of websocket.create_connection calls made
    connections,       \* the connections created and not closed
    wire,              \* the queries sent, each with the connection it went on
    logged_in,         \* the server connections on which root:login succeeded
    mpc,               \* position in main
    journal            \* what was logged and done besides queries

sendVars == <<pc, idx, status, global_status, wait_status, sent, log, samples>>
algVars  == <<data_points_seconds_1, data_points_seconds_2, op, out>>
redVars  == <<rpc, data_points_seconds, number_of_data_points,
              potential_data_points_seconds, iterations>>
conVars  == <<ws_on_cc, ws_on_server, token, created, connections, wire,
              logged_in, mpc, journal>>
vars     == <<sendVars, algVars, redVars, conVars>>

----------------------------------------------------------------------------
\* Bounds of the model.

\* number of schedules in the dictionary given to send_schedules_to_crescontrol
NumSchedules == 2
\* maximal number of samples of an input series of the curve algebra
MaxLen == 2
\* maximal number of samples of an input series of the point reduction
MaxInputLen == 8

----------------------------------------------------------------------------
\* Exact rational arithmetic.

Abs(x) == IF x < 0 THEN -x ELSE x

RECURSIVE GCD(_, _)
GCD(x, y) == IF y = 0 THEN x ELSE GCD(y, x % y)

\* the rational n/d (d # 0) in lowest terms with a positive denominator
Q(n, d) ==
    LET s == IF d < 0 THEN -1 ELSE 1
        g == GCD(Abs(n), Abs(d))
    IN  [n |-> (s * n) \div g, d |-> (s * d) \div g]

R(i) == [n |-> i, d |-> 1]

\* sums and products are reduced before they are multiplied out
LCM(x, y)  == (x \div GCD(x, y)) * y
QAdd(x, y) == LET l == LCM(x.d, y.d)
              IN  Q(x.n * (l \div x.d) + y.n * (l \div y.d), l)
QNeg(x)    == [n |-> -x.n, d |-> x.d]
QSub(x, y) == QAdd(x, QNeg(y))
QMul(x, y) == LET g1 == GCD(Abs(x.n), y.d)
                  g2 == GCD(Abs(y.n), x.d)
              IN  Q((x.n \div g1) * (y.n \div g2), (x.d \div g2) * (y.d \div g1))
QDiv(x, y) == QMul(x, Q(y.d, y.n))
QLt(x, y)  == LET l == LCM(x.d, y.d)
              IN  x.n * (l \div x.d) < y.n * (l \div y.d)
QLe(x, y)  == LET l == LCM(x.d, y.d)
              IN  x.n * (l \div x.d) <= y.n * (l \div y.d)
\* Python's max(x, y) and min(x, y): the first argument when they are equal
QMax(x, y) == IF QLt(x, y) THEN y ELSE x
QMin(x, y) == IF QLt(y, x) THEN y ELSE x
QAbs(x)    == [n |-> Abs(x.n), d |-> x.d]

----------------------------------------------------------------------------
\* Time/intensity series: sequences of <<time, intensity>>.

Time(p)      == p[1]
Intensity(p) == p[2]

TimesOf(s) == {Time(s[i]) : i \in 1..Len(s)}

\* Python's order on tuples (time, intensity)
TupleLt(p, q) ==
    \/ QLt(Time(p), Time(q))
    \/ Time(p) = Time(q) /\ QLt(Intensity(p), Intensity(q))

RECURSIVE Insert(_, _)
Insert(s, p) ==
    IF s = <<>> THEN <<p>>
    ELSE IF TupleLt(p, Head(s)) THEN <<p>> \o s
    ELSE <<Head(s)>> \o Insert(Tail(s), p)

NotSorted(s) == s

\* sorted(list)
RECURSIVE Sorted(_)
Sorted(s) == IF s = <<>> THEN <<>> ELSE Insert(Sorted(Tail(s)), Head(s))

\* a set of times as a list of zero-intensity samples (in some order)
RECURSIVE ZeroPadding(_)
ZeroPadding(T) ==
    IF T = {} THEN <<>>
    ELSE LET t == CHOOSE x \in T : TRUE
         IN  <<<<t, R(0)>>>> \o ZeroPadding(T \ {t})

parallelize_data_points_seconds(s1, s2) ==
    LET times_1 == TimesOf(s1)
        times_2 == TimesOf(s2)
        missing_times_in_2 == times_1 \ times_2
        missing_times_in_1 == times_2 \ times_1
        padded_1 == s1 \o ZeroPadding(missing_times_in_1)
        padded_2 == s2 \o ZeroPadding(missing_times_in_2)
    IN  <<Sorted(padded_1), Sorted(padded_2)>>

\* [(time1, max(min(intensity1+intensity2, max_intensity), min_intensity))
\*   for time1, intensity1 in padded_1 for time2, intensity2 in padded_2
\*   if time1 == time2]
RECURSIVE SumRows(_, _, _, _)
SumRows(p1, p2, min_intensity, max_intensity) ==
    IF p1 = <<>> THEN <<>>
    ELSE LET time1      == Time(Head(p1))
             intensity1 == Intensity(Head(p1))
             row        == SelectSeq(p2, LAMBDA e : Time(e) = time1)
         IN  [k \in 1..Len(row) |->
                 <<time1, QMax(QMin(QAdd(intensity1, Intensity(row[k])),
                                    max_intensity), min_intensity)>>]
             \o SumRows(Tail(p1), p2, min_intensity, max_intensity)

SumNotAligned(s1, s2, min_intensity, max_intensity) ==
    SumRows(s1, s2, min_intensity, max_intensity)

sum_data_points_seconds(s1, s2, min_intensity, max_intensity) ==
    LET padded == parallelize_data_points_seconds(s1, s2)
    IN  SumRows(padded[1], padded[2], min_intensity, max_intensity)

\* [(time, max(intensity1 - intensity2, min_intensity))
\*   for time, intensity1 in data_points_seconds_1
\*   for time2, intensity2 in padded_2
\*   if time == time2 and time in common_times]
RECURSIVE SubstractRows(_, _, _, _)
SubstractRows(s1, p2, common_times, min_intensity) ==
    IF s1 = <<>> THEN <<>>
    ELSE LET time       == Time(Head(s1))
             intensity1 == Intensity(Head(s1))
             row        == SelectSeq(p2, LAMBDA e :
                                Time(e) = time /\ time \in common_times)
         IN  [k \in 1..Len(row) |->
                 <<time, QMax(QSub(intensity1, Intensity(row[k])),
                              min_intensity)>>]
             \o SubstractRows(Tail(s1), p2, common_times, min_intensity)

substract_data_points_seconds(s1, s2, min_intensity, max_intensity) ==
    LET padded       == parallelize_data_points_seconds(s1, s2)
        common_times == TimesOf(padded[1]) \cap TimesOf(padded[2])
    IN  SubstractRows(s1, padded[2], common_times, min_intensity)

\* upper_gate=None
None == [n |-> 0, d |-> 0]

\* max_intensity = 0; for (time, intensity) in ...: max_intensity = max(max_intensity, intensity)
RECURSIVE MaxIntensity(_, _)
MaxIntensity(s, max_intensity) ==
    IF s = <<>> THEN max_intensity
    ELSE MaxIntensity(Tail(s), QMax(max_intensity, Intensity(Head(s))))

\* gating_factor divides by (max_intensity - treshold): ZeroDivisionError
GateRaises(s, treshold) == MaxIntensity(s, R(0)) = treshold

GatedIntensityNoOffset(intensity, treshold, lower_gate, gating_factor) ==
    QMul(QSub(intensity, treshold), gating_factor)

GatedIntensityFromZero(intensity, treshold, lower_gate, gating_factor) ==
    QAdd(lower_gate, QMul(intensity, gating_factor))

\* gated_intensity = lower_gate + ((intensity-treshold)*gating_factor)
GatedIntensity(intensity, treshold, lower_gate, gating_factor) ==
    QAdd(lower_gate, QMul(QSub(intensity, treshold), gating_factor))

gate_data_points_seconds(s, treshold, lower_gate, upper_gate_arg) ==
    LET max_intensity == MaxIntensity(s, R(0))
        upper_gate    == IF upper_gate_arg = None THEN max_intensity
                         ELSE upper_gate_arg
        gating_factor == QDiv(QSub(upper_gate, lower_gate),
                              QSub(max_intensity, treshold))
    IN  [i \in 1..Len(s) |->
            IF QLe(Intensity(s[i]), treshold)
            THEN <<Time(s[i]), R(0)>>
            ELSE <<Time(s[i]),
                   GatedIntensity(Intensity(s[i]), treshold, lower_gate,
                                  gating_factor)>>]

\* simplify_data_points_seconds, from the spline on:
\*   gate_data_points_seconds(data_points_intensities, lower_gate=0)
\* with the defaults treshold=0.01, upper_gate=None. The intensities are numpy
\* floats: when the maximum equals the threshold the division by zero raises
\* nothing and every sample is zeroed.
GateSplineFit(data_points_intensities) ==
    IF GateRaises(data_points_intensities, Q(1, 100))
    THEN [i \in 1..Len(data_points_intensities) |->
             <<Time(data_points_intensities[i]), R(0)>>]
    ELSE gate_data_points_seconds(data_points_intensities, Q(1, 100), R(0), None)

\* the value a function returns, or the exception it raises
Returned(v) == [raised |-> "", value |-> v]
Raised(e)   == [raised |-> e, value |-> <<>>]

----------------------------------------------------------------------------
\* Inputs of the curve algebra: series sorted ascending by time, no
\* duplicate time.

AlgTimes  == {R(0), R(5), R(10)}
AlgLevels == {R(-1), R(0), R(2), R(6)}

\* the times of T in ascending order
RECURSIVE Ascending(_)
Ascending(T) ==
    IF T = {} THEN <<>>
    ELSE LET t == CHOOSE x \in T : \A y \in T : QLe(x, y)
         IN  <<t>> \o Ascending(T \ {t})

SeriesOver(T, V, maxLen) ==
    UNION { LET ts == Ascending(S)
            IN  { [i \in 1..Len(ts) |-> <<ts[i], f[i]>>] :
                    f \in [1..Len(ts) -> V] } :
            S \in {S \in SUBSET T : Cardinality(S) <= maxLen} }

AlgSeries == SeriesOver(AlgTimes, AlgLevels, MaxLen)

\* min_intensity=0.0, max_intensity=10.0
DefaultMinIntensity == R(0)
DefaultMaxIntensity == R(10)

ConIdle ==
    /\ ws_on_cc = 0 /\ ws_on_server = 0 /\ token = "None" /\ created = 0
    /\ connections = {} /\ wire = <<>> /\ logged_in = {}
    /\ mpc = "idle" /\ journal = <<>>

SendIdle ==
    /\ pc = "idle" /\ idx = 0 /\ status = FALSE /\ global_status = TRUE
    /\ wait_status = FALSE /\ sent = <<>> /\ log = <<>> /\ samples = <<>>

RedIdle ==
    /\ rpc = "idle" /\ data_points_seconds = <<>> /\ number_of_data_points = 0
    /\ potential_data_points_seconds = <<>> /\ iterations = 0

AlgIdle ==
    /\ data_points_seconds_1 = <<>> /\ data_points_seconds_2 = <<>>
    /\ op = [f |-> "none"] /\ out = Returned(<<>>)

AlgInit ==
    /\ data_points_seconds_1 \in AlgSeries
    /\ data_points_seconds_2 \in AlgSeries
    /\ op = [f |-> "none"]
    /\ out = Returned(<<>>)
    /\ SendIdle /\ RedIdle /\ ConIdle

ApplySum ==
    /\ op.f = "none"
    /\ op' = [f |-> "sum"]
    /\ out' = Returned(sum_data_points_seconds(data_points_seconds_1,
                  data_points_seconds_2, DefaultMinIntensity, DefaultMaxIntensity))
    /\ UNCHANGED <<data_points_seconds_1, data_points_seconds_2, sendVars, redVars, conVars>>

ApplySubstract ==
    /\ op.f = "none"
    /\ op' = [f |-> "substract"]
    /\ out' = Returned(substract_data_points_seconds(data_points_seconds_1,
                  data_points_seconds_2, DefaultMinIntensity, DefaultMaxIntensity))
    /\ UNCHANGED <<data_points_seconds_1, data_points_seconds_2, sendVars, redVars, conVars>>

\* substract(sum(A, B), B)
ApplySubstractOfSum ==
    /\ op.f = "none"
    /\ op' = [f |-> "substract_of_sum"]
    /\ out' = Returned(substract_data_points_seconds(
                  sum_data_points_seconds(data_points_seconds_1,
                      data_points_seconds_2, DefaultMinIntensity, DefaultMaxIntensity),
                  data_points_seconds_2, DefaultMinIntensity, DefaultMaxIntensity))
    /\ UNCHANGED <<data_points_seconds_1, data_points_seconds_2, sendVars, redVars, conVars>>

\* s[::-1]
Reversed(s) == [i \in 1..Len(s) |-> s[Len(s) + 1 - i]]

\* parallelize(A, B), for inputs in ascending or in descending time order
ApplyParallelize ==
    /\ op.f = "none"
    /\ \E a \in {data_points_seconds_1, Reversed(data_points_seconds_1)},
          b \in {data_points_seconds_2, Reversed(data_points_seconds_2)} :
          /\ op' = [f |-> "parallelize", data_points_seconds_1 |-> a,
                    data_points_seconds_2 |-> b]
          /\ out' = Returned(parallelize_data_points_seconds(a, b))
    /\ UNCHANGED <<data_points_seconds_1, data_points_seconds_2, sendVars, redVars, conVars>>

AlgNext == ApplySum \/ ApplySubstract \/ ApplySubstractOfSum \/ ApplyParallelize

AlgebraSpec == AlgInit /\ [][AlgNext]_vars

----------------------------------------------------------------------------
\* Properties of the curve algebra.

IsAscending(s) == \A i \in 1..(Len(s) - 1) : QLt(Time(s[i]), Time(s[i + 1]))

\* the intensity of a series at time t, 0 at a time it lacks
ValueAt(s, t) ==
    IF t \in TimesOf(s)
    THEN Intensity(s[CHOOSE i \in 1..Len(s) : Time(s[i]) = t])
    ELSE R(0)

UnionTimes == TimesOf(data_points_seconds_1) \cup TimesOf(data_points_seconds_2)

\* one sample for every time of the union of both inputs, ascending
OnUnionTimes(res) ==
    /\ TimesOf(res) = UnionTimes
    /\ Len(res) = Cardinality(UnionTimes)
    /\ IsAscending(res)

\* C8: substract(A, B) has exactly one sample for every time point of the
\* union of the time points of A and B, in ascending time order, with
\* intensity max(a - b, min_intensity), a series counting 0 at a time it
\* lacks; no time point present only in B is lost.
C8_SubstractOnUnion ==
    op.f = "substract" =>
        /\ OnUnionTimes(out.value)
        /\ \A i \in 1..Len(out.value) :
              Intensity(out.value[i]) =
                  QMax(QSub(ValueAt(data_points_seconds_1, Time(out.value[i])),
                            ValueAt(data_points_seconds_2, Time(out.value[i]))),
                       DefaultMinIntensity)

\* non-negative intensities, every pointwise sum within [min, max]
C9_Precondition ==
    /\ \A i \in 1..Len(data_points_seconds_1) :
          QLe(R(0), Intensity(data_points_seconds_1[i]))
    /\ \A i \in 1..Len(data_points_seconds_2) :
          QLe(R(0), Intensity(data_points_seconds_2[i]))
    /\ \A t \in UnionTimes :
          LET sum == QAdd(ValueAt(data_points_seconds_1, t),
                          ValueAt(data_points_seconds_2, t))
          IN  QLe(DefaultMinIntensity, sum) /\ QLe(sum, DefaultMaxIntensity)

TimeList(s) == [i \in 1..Len(s) |-> Time(s[i])]

\* padded holds every sample of s unchanged, and besides them only samples
\* of intensity 0.0
PaddedWithZeros(s, padded) ==
    /\ \A k \in 1..Len(s) : \E i \in 1..Len(padded) : padded[i] = s[k]
    /\ \A i \in 1..Len(padded) :
          \/ \E k \in 1..Len(s) : padded[i] = s[k]
          \/ Intensity(padded[i]) = R(0)

\* C13: for A and B without duplicate times, parallelize(A, B) returns two
\* series with the same time points in the same ascending order, the union of
\* the times of A and B, one sample per time; every sample of an input is in
\* its output unchanged and every added sample has intensity 0.0.
C13_ParallelizeAligns ==
    op.f = "parallelize" =>
        LET times == TimesOf(op.data_points_seconds_1)
                         \cup TimesOf(op.data_points_seconds_2)
        IN  /\ TimeList(out.value[1]) = TimeList(out.value[2])
            /\ IsAscending(out.value[1])
            /\ TimesOf(out.value[1]) = times
            /\ Len(out.value[1]) = Cardinality(times)
            /\ PaddedWithZeros(op.data_points_seconds_1, out.value[1])
            /\ PaddedWithZeros(op.data_points_seconds_2, out.value[2])

\* two series in descending time order, each with a time the other lacks and
\* a non-zero intensity, were aligned
C13_Witness ==
    /\ op.f = "parallelize"
    /\ Len(op.data_points_seconds_1) = 2 /\ Len(op.data_points_seconds_2) = 2
    /\ ~IsAscending(op.data_points_seconds_1)
    /\ ~IsAscending(op.data_points_seconds_2)
    /\ TimesOf(op.data_points_seconds_1) # TimesOf(op.data_points_seconds_2)
    /\ \A k \in 1..2 : /\ Intensity(op.data_points_seconds_1[k]) # R(0)
                        /\ Intensity(op.data_points_seconds_2[k]) # R(0)
    /\ Len(out.value[1]) = 3

----------------------------------------------------------------------------
\* gate_data_points_seconds on its own (GateSpec).

GateLevels == {R(-1), Q(-1, 2), R(0), Q(1, 200), Q(1, 100), R(1), R(5)}
GateSeries == SeriesOver(AlgTimes, GateLevels, MaxLen)

\* treshold=0.01 is the default
Tresholds  == {R(-1), R(0), Q(1, 100), R(1)}
\* lower_gate=1 is the default; 0.75 is driver_minimal_voltage_for_light_3500K
LowerGates == {R(-1), R(0), Q(1, 100), Q(3, 4), R(1)}
\* upper_gate=None is the default
UpperGates == {None, R(1), R(10)}

GateInit ==
    /\ data_points_seconds_1 \in GateSeries
    /\ data_points_seconds_2 = <<>>
    /\ op = [f |-> "none"]
    /\ out = Returned(<<>>)
    /\ SendIdle /\ RedIdle /\ ConIdle

GateCall(s, treshold, lower_gate, upper_gate) ==
    IF GateRaises(s, treshold)
    THEN Raised("ZeroDivisionError")
    ELSE Returned(gate_data_points_seconds(s, treshold, lower_gate, upper_gate))

ApplyGate ==
    /\ op.f = "none"
    /\ \E treshold \in Tresholds, lower_gate \in LowerGates, upper_gate \in UpperGates :
          /\ op' = [f |-> "gate", treshold |-> treshold,
                    lower_gate |-> lower_gate, upper_gate |-> upper_gate]
          /\ out' = GateCall(data_points_seconds_1, treshold, lower_gate, upper_gate)
    /\ UNCHANGED <<data_points_seconds_1, data_points_seconds_2, sendVars, redVars, conVars>>

\* the gated series is gated again with the same arguments
ApplyGateAgain ==
    /\ op.f = "gate"
    /\ out.raised = ""
    /\ op' = [op EXCEPT !.f = "gate_again"]
    /\ data_points_seconds_1' = out.value
    /\ out' = GateCall(out.value, op.treshold, op.lower_gate, op.upper_gate)
    /\ UNCHANGED <<data_points_seconds_2, sendVars, redVars, conVars>>

\* the call made by simplify_data_points_seconds on the spline output, whose
\* intensities are numpy floats:
\*   gate_data_points_seconds(data_points_intensities, lower_gate=0)
ApplyGateOnSplineOutput ==
    /\ op.f = "none"
    /\ op' = [f |-> "gate_numpy", treshold |-> Q(1, 100),
              lower_gate |-> R(0), upper_gate |-> None]
    /\ out' = Returned(GateSplineFit(data_points_seconds_1))
    /\ UNCHANGED <<data_points_seconds_1, data_points_seconds_2, sendVars, redVars, conVars>>

GateNext == ApplyGate \/ ApplyGateAgain \/ ApplyGateOnSplineOutput

GateSpec == GateInit /\ [][GateNext]_vars

\* C10 as claimed: for every series and every choice of threshold, lower_gate
\* and upper_gate, gating the gated series again with the same arguments
\* returns it unchanged.
C10_GateIdempotent ==
    op.f = "gate_again" => out = Returned(data_points_seconds_1)

\* C10 as claimed, for the defaults it names: threshold=0.01, lower_gate a
\* driver's minimal voltage (0.75), upper_gate unset.
C10_GateIdempotentDefaults ==
    (/\ op.f = "gate_again"
     /\ op.treshold = Q(1, 100)
     /\ op.lower_gate = Q(3, 4)
     /\ op.upper_gate = None) => out = Returned(data_points_seconds_1)

\* C10 amended: when lower_gate equals the threshold, the threshold is not
\* negative and upper_gate is unset or above the threshold, gating the gated series again with the same
\* arguments returns it unchanged.
C10_GateIdempotentAtThreshold ==
    (/\ op.f = "gate_again"
     /\ op.lower_gate = op.treshold
     /\ QLe(R(0), op.treshold)
     /\ (op.upper_gate = None \/ QLt(op.treshold, op.upper_gate)))
        => out = Returned(data_points_seconds_1)

\* a series with samples below and above the threshold was gated twice with
\* lower_gate = threshold = 0.01
C10_Witness ==
    /\ op.f = "gate_again"
    /\ op.lower_gate = op.treshold
    /\ op.treshold = Q(1, 100)
    /\ op.upper_gate = R(10)
    /\ out.raised = ""
    /\ \E i \in 1..Len(out.value) : Intensity(out.value[i]) = R(0)
    /\ \E i \in 1..Len(out.value) : Intensity(out.value[i]) = R(10)

\* the greatest intensity of a series that is not empty
SeriesMax(s) ==
    Intensity(s[CHOOSE i \in 1..Len(s) :
                  \A j \in 1..Len(s) : QLe(Intensity(s[j]), Intensity(s[i]))])

\* the upper gate in force: the series maximum when upper_gate is unset
UpperGateInForce(s, upper_gate) ==
    IF upper_gate = None THEN SeriesMax(s) ELSE upper_gate

\* the gated series maps the samples of s as C11 says
MapsOntoGates(s, gated, treshold, lower_gate, upper_gate) ==
    /\ Len(gated) = Len(s)
    /\ \A i \in 1..Len(s) :
          /\ Time(gated[i]) = Time(s[i])
          /\ QLe(Intensity(s[i]), treshold) => Intensity(gated[i]) = R(0)
          /\ QLt(treshold, Intensity(s[i])) =>
                /\ QLe(lower_gate, Intensity(gated[i]))
                /\ QLe(Intensity(gated[i]), upper_gate)
          /\ Intensity(s[i]) = SeriesMax(s) => Intensity(gated[i]) = upper_gate
          /\ \A j \in 1..Len(s) :
                (/\ QLt(treshold, Intensity(s[i]))
                 /\ QLe(Intensity(s[i]), Intensity(s[j])))
                    => QLe(Intensity(gated[i]), Intensity(gated[j]))

\* a series whose maximum exceeds the threshold was gated
GatedAboveTreshold ==
    /\ op.f = "gate"
    /\ data_points_seconds_1 # <<>>
    /\ QLt(op.treshold, SeriesMax(data_points_seconds_1))

\* C11 as claimed: for every series whose maximum exceeds the threshold, the
\* gate returns a series in which every sample at or below the threshold is
\* 0, every sample above it lies within [lower_gate, upper_gate] (the series
\* maximum when unset), in the order of the input intensities, a sample at
\* the series maximum being mapped to upper_gate.
C11_GateMapsOntoGates ==
    GatedAboveTreshold =>
        /\ out.raised = ""
        /\ MapsOntoGates(data_points_seconds_1, out.value, op.treshold,
               op.lower_gate,
               UpperGateInForce(data_points_seconds_1, op.upper_gate))

\* C11 amended: the same, for the calls in which lower_gate does not exceed
\* the upper gate in force and the threshold is not negative.
C11_GateMapsOntoOrderedGates ==
    (/\ GatedAboveTreshold
     /\ QLe(R(0), op.treshold)
     /\ QLe(op.lower_gate,
            UpperGateInForce(data_points_seconds_1, op.upper_gate)))
        => /\ out.raised = ""
           /\ MapsOntoGates(data_points_seconds_1, out.value, op.treshold,
                  op.lower_gate,
                  UpperGateInForce(data_points_seconds_1, op.upper_gate))

\* a series with a sample between the threshold and the maximum and one at
\* the maximum was gated from [0.01, 5] onto [0.75, 10]
C11_Witness ==
    /\ GatedAboveTreshold
    /\ op.treshold = Q(1, 100) /\ op.lower_gate = Q(3, 4) /\ op.upper_gate = R(10)
    /\ \E j, k \in 1..Len(data_points_seconds_1) :
          /\ Intensity(data_points_seconds_1[j]) = R(1)
          /\ Intensity(data_points_seconds_1[k]) = R(5)
          /\ QLt(Q(3, 4), Intensity(out.value[j]))
          /\ Intensity(out.value[k]) = R(10)

\* C12: when the maximum intensity of the series equals the threshold, the
\* gate ends in an error and returns no series, on the direct call and on
\* the call made by simplify_data_points_seconds on the spline output.
C12_GateFailsExplicitly ==
    (/\ op.f \in {"gate", "gate_numpy"}
     /\ GateRaises(data_points_seconds_1, op.treshold))
        => (out.raised # "" /\ out.value = <<>>)

----------------------------------------------------------------------------
\* send_schedules_to_crescontrol (Spec, FairSpec).
\*
\* One action per command sent on the websocket (execute_command_and_report)
\* together with the handling of its response up to the next command. The
\* controller is the environment: every response is one of the kinds the
\* code tells apart.

\* schedule_dic.items(), in insertion order
Schedules == 1..NumSchedules

\* the transitions of one schedule, in the order of the function body
Transitions == <<"create", "disable", "set-parameter", "set-timetable",
                 "set-resolution", "enable", "save">>

WaitPcs == {"wait1", "wait2", "wait3"}

SendInit ==
    /\ pc = "for"
    /\ idx = 0
    /\ status = FALSE
    /\ global_status = TRUE
    /\ wait_status = FALSE
    /\ sent = [s \in Schedules |-> <<>>]
    /\ log = [s \in Schedules |-> <<>>]
    /\ samples = <<>>
    /\ AlgIdle /\ RedIdle /\ ConIdle

\* execute_command_and_report(query) for the current schedule
Send(query) == sent' = [sent EXCEPT ![idx] = Append(@, query)]

\* the outcome of a transition of the current schedule
Logged(transition, ok) ==
    log' = [log EXCEPT ![idx] = Append(@, [step |-> transition, ok |-> ok])]

AndStatusDropped(g, st) == g

\* global_status = global_status and status
AndStatus(g, st) == g /\ st

OnFailureFallThrough(next) == next

OnFailureBreak(next) == "return"

\* if not status: ...; continue
OnFailure(next) == "for"

AfterParameterResolution == "set_resolution"

\* the command that follows a successful set-parameter
AfterParameter == "set_timetable"

\* after the status of a transition is known
Outcome(transition, st, next) ==
    /\ status' = st
    /\ global_status' = AndStatus(global_status, st)
    /\ Logged(transition, st)
    /\ pc' = IF ~st THEN OnFailure(next) ELSE next

\* for schedule_name, (schedule, out_port, meta) in schedule_dic.items():
ForNext ==
    /\ pc = "for"
    /\ IF idx < NumSchedules
       THEN idx' = idx + 1 /\ pc' = "create_get"
       ELSE idx' = idx /\ pc' = "return"
    /\ samples' = <<>>
    /\ UNCHANGED <<status, global_status, wait_status, sent, log, algVars, redVars, conVars>>

\* create_schedule_if_not_exists(schedule_name, keep_existing_schedule=True):
\* schedule:get-name; an existing schedule is kept
CreateGetName ==
    /\ pc = "create_get"
    /\ Send("schedule:get-name")
    /\ \E output \in {"does not exist", "other"} :
          IF output # "does not exist"
          THEN Outcome("create", TRUE, "disable_get")
          ELSE pc' = "create_add" /\ UNCHANGED <<status, global_status, log>>
    /\ UNCHANGED <<idx, wait_status, samples, algVars, redVars, conVars>>

\* create_schedule_if_not_exists: schedule:add
CreateAdd ==
    /\ pc = "create_add"
    /\ Send("schedule:add")
    /\ \E output \in {"success", "other"} :
          Outcome("create", output = "success", "disable_get")
    /\ UNCHANGED <<idx, wait_status, samples, algVars, redVars, conVars>>

\* disable_schedule: schedule:get-enabled
DisableGetEnabled ==
    /\ pc = "disable_get"
    /\ Send("schedule:get-enabled")
    /\ \E output \in {"1", "0", "other"} :
          IF output = "1"
          THEN pc' = "disable_set" /\ UNCHANGED <<status, global_status, log>>
          ELSE Outcome("disable", output = "0", "set_parameter")
    /\ UNCHANGED <<idx, wait_status, samples, algVars, redVars, conVars>>

\* disable_schedule: schedule:set-enabled(name, 0)
DisableSetEnabled ==
    /\ pc = "disable_set"
    /\ Send("schedule:set-enabled,0")
    /\ \E output \in {"success", "other"} :
          Outcome("disable", output = "success", "set_parameter")
    /\ UNCHANGED <<idx, wait_status, samples, algVars, redVars, conVars>>

\* schedule:set-parameter(name, out_port:voltage)
SetParameter ==
    /\ pc = "set_parameter"
    /\ Send("schedule:set-parameter")
    /\ \E output \in {"success", "other"} :
          Outcome("set-parameter", output = "success", AfterParameter)
    /\ UNCHANGED <<idx, wait_status, samples, algVars, redVars, conVars>>

\* schedule:set-timetable(name, schedule); success is the echoed timetable
SetTimetable ==
    /\ pc = "set_timetable"
    /\ Send("schedule:set-timetable")
    /\ \E output \in {"schedule", "other"} :
          Outcome("set-timetable", output = "schedule", "set_resolution")
    /\ UNCHANGED <<idx, wait_status, samples, algVars, redVars, conVars>>

\* schedule:set-resolution(name, 1.00,0.02); success is the echoed resolution
SetResolution ==
    /\ pc = "set_resolution"
    /\ Send("schedule:set-resolution")
    /\ \E output \in {"res", "other"} :
          Outcome("set-resolution", output = "res", "enable_get")
    /\ UNCHANGED <<idx, wait_status, samples, algVars, redVars, conVars>>

\* enable_schedule: schedule:get-enabled
EnableGetEnabled ==
    /\ pc = "enable_get"
    /\ Send("schedule:get-enabled")
    /\ \E output \in {"0", "1", "other"} :
          IF output = "0"
          THEN pc' = "enable_set" /\ UNCHANGED <<status, global_status, log>>
          ELSE Outcome("enable", output = "1", "save")
    /\ UNCHANGED <<idx, wait_status, samples, algVars, redVars, conVars>>

\* enable_schedule: schedule:set-enabled(name, 1)
EnableSetEnabled ==
    /\ pc = "enable_set"
    /\ Send("schedule:set-enabled,1")
    /\ \E output \in {"success", "other"} :
          Outcome("enable", output = "success", "save")
    /\ UNCHANGED <<idx, wait_status, samples, algVars, redVars, conVars>>

\* schedule:save(name): status is not assigned, "if not status" reads the
\* status of enable_schedule
Save ==
    /\ pc = "save"
    /\ Send("schedule:save")
    /\ \E output \in {"success", "other"} :
          /\ global_status' = AndStatus(global_status, output = "success")
          /\ Logged("save", output = "success")
    /\ pc' = IF ~status THEN OnFailure("wait1") ELSE "wait1"
    /\ wait_status' = FALSE
    /\ UNCHANGED <<idx, status, samples, algVars, redVars, conVars>>

\* the last three samples
Last3(s) == IF Len(s) > 3 THEN SubSeq(s, Len(s) - 2, Len(s)) ELSE s

RecoveredLastOnly(st, sample) == sample

\* status = status and (output >= minimum_frequency)
Recovered(st, sample) == st /\ sample

\* output = float(execute_command_and_report('system:frequency')): a response
\* that is no number raises ValueError out of send_schedules_to_crescontrol
FrequencyOutputs == {"high", "low", "no number"}

\* first sample of a round: status = (output >= minimum_frequency)
Wait1 ==
    /\ pc = "wait1"
    /\ \E output \in FrequencyOutputs :
          IF output = "no number"
          THEN pc' = "raised" /\ UNCHANGED <<wait_status, samples>>
          ELSE /\ wait_status' = (output = "high")
               /\ samples' = Last3(Append(samples, output = "high"))
               /\ pc' = "wait2"
    /\ UNCHANGED <<idx, status, global_status, sent, log, algVars, redVars, conVars>>

\* second sample of a round
Wait2 ==
    /\ pc = "wait2"
    /\ \E output \in FrequencyOutputs :
          IF output = "no number"
          THEN pc' = "raised" /\ UNCHANGED <<wait_status, samples>>
          ELSE /\ wait_status' = Recovered(wait_status, output = "high")
               /\ samples' = Last3(Append(samples, output = "high"))
               /\ pc' = "wait3"
    /\ UNCHANGED <<idx, status, global_status, sent, log, algVars, redVars, conVars>>

\* third sample of a round, and the test of "while not status"
Wait3 ==
    /\ pc = "wait3"
    /\ \E output \in FrequencyOutputs :
          IF output = "no number"
          THEN pc' = "raised" /\ UNCHANGED <<wait_status, samples>>
          ELSE /\ wait_status' = Recovered(wait_status, output = "high")
               /\ samples' = Last3(Append(samples, output = "high"))
               /\ pc' = IF wait_status' THEN "for" ELSE "wait1"
    /\ UNCHANGED <<idx, status, global_status, sent, log, algVars, redVars, conVars>>

Next ==
    \/ ForNext
    \/ CreateGetName \/ CreateAdd
    \/ DisableGetEnabled \/ DisableSetEnabled
    \/ SetParameter \/ SetTimetable \/ SetResolution
    \/ EnableGetEnabled \/ EnableSetEnabled
    \/ Save
    \/ Wait1 \/ Wait2 \/ Wait3

Spec == SendInit /\ [][Next]_vars

\* the script runs on: no step that can be taken is put off forever
FairSpec == Spec /\ WF_vars(Next)

----------------------------------------------------------------------------
\* Properties of send_schedules_to_crescontrol.

StepsOf(s) == [i \in 1..Len(log[s]) |-> log[s][i].step]

IsPrefix(p, q) == Len(p) <= Len(q) /\ \A i \in 1..Len(p) : p[i] = q[i]

\* a transition of schedule s has failed
Failed(s) == \E i \in 1..Len(log[s]) : ~log[s][i].ok

\* every transition of schedule s was attempted and succeeded
AllSucceeded(s) ==
    /\ Len(log[s]) = Len(Transitions)
    /\ \A i \in 1..Len(log[s]) : log[s][i].ok

\* every step but the last one logged has succeeded
EarlierStepsSucceeded(s) == \A i \in 1..(Len(log[s]) - 1) : log[s][i].ok

\* the order of the per-schedule state machine of the specification:
\* the resolution before the timetable
ClaimedOrder == <<"create", "disable", "set-parameter", "set-resolution",
                  "set-timetable", "enable", "save">>

\* C3 as claimed: for each schedule the commands are issued in the order
\* create, disable, set-parameter and set-resolution, set-timetable, enable,
\* save (the resolution before the timetable), no step before all earlier
\* steps succeeded.
C3_ClaimedOrder ==
    \A s \in Schedules :
        IsPrefix(StepsOf(s), ClaimedOrder) /\ EarlierStepsSucceeded(s)

\* C3 amended: for each schedule the commands are issued in the order
\* create, disable, set-parameter, set-timetable, set-resolution, enable,
\* save (the resolution after the timetable), no step before all earlier
\* steps succeeded.
C3_CodeOrder ==
    \A s \in Schedules :
        IsPrefix(StepsOf(s), Transitions) /\ EarlierStepsSucceeded(s)

\* a schedule went through all its transitions
C3_Witness == \E s \in Schedules : AllSucceeded(s)

\* C4: once a transition of a schedule has failed, no further command is
\* sent for that schedule and no further transition of it is attempted
\* during the call: nothing is enabled, saved or rolled back.
C4_NoCommandAfterFailure ==
    [][\A s \in Schedules :
          Failed(s) => (sent'[s] = sent[s] /\ log'[s] = log[s])]_vars

\* the timetable of the first schedule was written, its resolution setting
\* failed, and the second schedule is being provisioned
C4_Witness ==
    /\ Len(log[1]) = 5
    /\ ~log[1][5].ok
    /\ idx = 2
    /\ Len(sent[2]) > 1

\* C5: the first transition (create/lookup) of every schedule of the
\* dictionary is eventually attempted, whatever the outcomes of the
\* schedules before it, provided every frequency-recovery wait returns.
C5_EverySiblingAttempted ==
    \A s \in Schedules :
        (<>[](pc \in WaitPcs \cup {"raised"})) \/ <>(sent[s] # <<>>)

\* the creation of the first schedule failed and the creation of the
\* second one was attempted
C5_Witness ==
    /\ Len(log[1]) = 1
    /\ ~log[1][1].ok
    /\ sent[2] # <<>>

\* C6: send_schedules_to_crescontrol returns True if and only if every
\* transition of every schedule succeeded, the save step included.
C6_ReturnsTrueIffAllSucceeded ==
    pc = "return" => (global_status <=> \A s \in Schedules : AllSucceeded(s))

\* the function returned after a run in which only the save of one
\* schedule failed
C6_Witness ==
    /\ pc = "return"
    /\ \E s \in Schedules :
          /\ Len(log[s]) = Len(Transitions)
          /\ \A i \in 1..Len(log[s]) : log[s][i].ok <=> (i < Len(log[s]))
          /\ \A t \in Schedules \ {s} : AllSucceeded(t)

AllMet(s) == Len(s) = 3 /\ \A i \in 1..3 : s[i]

\* wait_for_cc_frequency_recovery has just returned
WaitReturned == pc = "for" /\ samples # <<>>

\* C7 as claimed: the wait never returns unless the last three samples all
\* met the threshold, and it returns as soon as three consecutive samples
\* have met it, wherever that run of three starts.
C7_ReturnsOnAnyRunOfThree ==
    /\ WaitReturned => AllMet(samples)
    /\ pc \in WaitPcs => ~AllMet(samples)

\* C7 amended: the wait never returns unless the last three samples all met
\* the threshold, and it returns as soon as the three samples of one round
\* of the loop (samples 3k+1, 3k+2, 3k+3) have all met it; a run of three
\* that starts inside a round does not end the wait.
C7_ReturnsOnRoundOfThree ==
    /\ WaitReturned => AllMet(samples)
    /\ pc = "wait1" => ~AllMet(samples)

\* the wait has returned
C7_Witness == WaitReturned /\ AllMet(samples) /\ idx = 1

----------------------------------------------------------------------------
\* convert_data_points_to_string (SerializeSpec).
\*
\* A number rendered with f"{x:.2f}" is modelled by the integer its digits
\* spell once the decimal point is dropped ("3.50" is 350): the rendered
\* string is the sequence of the pairs <<time, intensity>> of such integers.

\* decimal_places=2
DecimalPlaces == 2

RECURSIVE Pow10(_)
Pow10(k) == IF k = 0 THEN 1 ELSE 10 * Pow10(k - 1)

\* int(x): truncation towards zero
IntOf(x) == IF x.n >= 0 THEN x.n \div x.d ELSE -((-x.n) \div x.d)

FormatTruncated(x, decimal_places) ==
    LET y == QMul(x, R(Pow10(decimal_places)))
    IN  y.n \div y.d

\* f"{x:.{decimal_places}f}": x rounded to decimal_places decimals, a tie
\* to the even digit
Format(x, decimal_places) ==
    LET y     == QMul(x, R(Pow10(decimal_places)))
        floor == y.n \div y.d
        twice == 2 * (y.n - floor * y.d)
    IN  IF twice < y.d THEN floor
        ELSE IF twice > y.d THEN floor + 1
        ELSE IF floor % 2 = 0 THEN floor ELSE floor + 1

ClampDropped(intensity, minimum_intensity, maximum_intensity) == intensity

\* min(max(minimum_intensity,intensity),maximum_intensity)
Clamp(intensity, minimum_intensity, maximum_intensity) ==
    QMin(QMax(minimum_intensity, intensity), maximum_intensity)

\* "[" + ",".join([f"[{(int(time)):.2f},{min(max(...),...):.2f}]" ...]) + "]"
convert_data_points_to_string(s, decimal_places, minimum_intensity, maximum_intensity) ==
    [i \in 1..Len(s) |->
        <<Format(R(IntOf(Time(s[i]))), decimal_places),
          Format(Clamp(Intensity(s[i]), minimum_intensity, maximum_intensity),
                 decimal_places)>>]

\* the copy of the function in light_modulation_library.py, which renders the
\* time itself: f"[{(time):.2f},{min(max(...),...):.2f}]"
lml_convert_data_points_to_string(s, decimal_places, minimum_intensity, maximum_intensity) ==
    [i \in 1..Len(s) |->
        <<Format(Time(s[i]), decimal_places),
          Format(Clamp(Intensity(s[i]), minimum_intensity, maximum_intensity),
                 decimal_places)>>]

\* the two modules that define convert_data_points_to_string
Modules == {"light_modulation_library_generation", "light_modulation_library"}

\* Inputs: times on and off the whole seconds (np.linspace gives fractions of
\* a second), intensities below, inside and above [0, 10], two of them ties
\* of the rounding that are exact in binary (0.125, 0.375).
SerTimes  == {R(0), Q(7, 2), Q(86100, 31)}
SerLevels == {R(-1), Q(1, 8), Q(3, 8), Q(619, 500), R(10), R(12)}
SerSeries == SeriesOver(SerTimes, SerLevels, MaxLen)

\* minimum_intensity=0.00, maximum_intensity=10.0 are the defaults
IntensityRanges == {<<R(0), R(10)>>, <<Q(1, 4), R(5)>>}

SerInit ==
    /\ data_points_seconds_1 \in SerSeries
    /\ data_points_seconds_2 = <<>>
    /\ op = [f |-> "none"]
    /\ out = Returned(<<>>)
    /\ SendIdle /\ RedIdle /\ ConIdle

ApplyConvert ==
    /\ op.f = "none"
    /\ \E a \in {data_points_seconds_1, Reversed(data_points_seconds_1)},
          range \in IntensityRanges, module \in Modules :
          /\ op' = [f |-> "convert", module |-> module,
                    data_points_seconds |-> a,
                    minimum_intensity |-> range[1],
                    maximum_intensity |-> range[2]]
          /\ out' = Returned(
                IF module = "light_modulation_library_generation"
                THEN convert_data_points_to_string(a, DecimalPlaces,
                         range[1], range[2])
                ELSE lml_convert_data_points_to_string(a, DecimalPlaces,
                         range[1], range[2]))
    /\ UNCHANGED <<data_points_seconds_1, data_points_seconds_2, sendVars, redVars, conVars>>

SerNext == ApplyConvert

SerializeSpec == SerInit /\ [][SerNext]_vars

\* the number a rendered decimal reads as
DecimalValue(digits) == Q(digits, Pow10(DecimalPlaces))

\* half a unit of the last decimal
HalfUnit == Q(1, 2 * Pow10(DecimalPlaces))

\* C14: every intensity rendered by convert_data_points_to_string lies within
\* [minimum_intensity, maximum_intensity]: an intensity below the minimum is
\* rendered as the minimum, one above the maximum as the maximum, and the
\* string has one pair per input sample, in input order.
C14_RenderedWithinRange ==
    op.f = "convert" =>
        /\ Len(out.value) = Len(op.data_points_seconds)
        /\ \A i \in 1..Len(out.value) :
              LET time      == Time(op.data_points_seconds[i])
                  intensity == Intensity(op.data_points_seconds[i])
                  rendered  == DecimalValue(out.value[i][2])
              IN  /\ QLe(op.minimum_intensity, rendered)
                  /\ QLe(rendered, op.maximum_intensity)
                  /\ QLt(intensity, op.minimum_intensity)
                        => rendered = op.minimum_intensity
                  /\ QLt(op.maximum_intensity, intensity)
                        => rendered = op.maximum_intensity
                  /\ QLt(QAbs(QSub(DecimalValue(out.value[i][1]), time)), R(1))

\* a series with an intensity below 0 and one above 10, later sample first,
\* was rendered with the default range
C14_Witness ==
    /\ op.f = "convert"
    /\ op.minimum_intensity = R(0) /\ op.maximum_intensity = R(10)
    /\ op.module = "light_modulation_library"
    /\ Len(op.data_points_seconds) = 2
    /\ ~IsAscending(op.data_points_seconds)
    /\ Intensity(op.data_points_seconds[1]) = R(-1)
    /\ Intensity(op.data_points_seconds[2]) = R(12)
    /\ out.value[1][2] = 0 /\ out.value[2][2] = 1000

\* a series with intensities inside [0, 10] was rendered with the defaults
ConvertedInsideRange ==
    /\ op.f = "convert"
    /\ op.minimum_intensity = R(0) /\ op.maximum_intensity = R(10)
    /\ \A i \in 1..Len(op.data_points_seconds) :
          /\ QLe(R(0), Intensity(op.data_points_seconds[i]))
          /\ QLe(Intensity(op.data_points_seconds[i]), R(10))

\* C15 as claimed: for every series with intensities inside [0, 10], times
\* that are no whole seconds included, reading the rendered string recovers
\* each time and each intensity to within half a unit of the last decimal.
C15_RoundTripWithinHalfUnit ==
    ConvertedInsideRange =>
        \A i \in 1..Len(out.value) :
            /\ QLe(QAbs(QSub(DecimalValue(out.value[i][1]),
                             Time(op.data_points_seconds[i]))), HalfUnit)
            /\ QLe(QAbs(QSub(DecimalValue(out.value[i][2]),
                             Intensity(op.data_points_seconds[i]))), HalfUnit)

\* C15 amended: reading the rendered string recovers each intensity to
\* within half a unit of the last decimal; it recovers each time to within
\* half a unit of the last decimal for the function of
\* light_modulation_library, and cut down to the whole second for the
\* function of light_modulation_library_generation: there the time read is a
\* whole number, not above the time rendered and less than one second below.
C15_RoundTripWholeSeconds ==
    ConvertedInsideRange =>
        \A i \in 1..Len(out.value) :
            LET time == Time(op.data_points_seconds[i])
                read == DecimalValue(out.value[i][1])
            IN  /\ IF op.module = "light_modulation_library_generation"
                   THEN /\ read.d = 1
                        /\ QLe(read, time)
                        /\ QLt(QSub(time, read), R(1))
                   ELSE QLe(QAbs(QSub(read, time)), HalfUnit)
                /\ QLe(QAbs(QSub(DecimalValue(out.value[i][2]),
                                 Intensity(op.data_points_seconds[i]))), HalfUnit)

\* the sample (3.5, 1.238) was rendered as [3.00,1.24] and the sample
\* (86100/31 = 2777.419..., 0.375) as [2777.00,0.38]
C15_Witness ==
    /\ ConvertedInsideRange
    /\ op.module = "light_modulation_library_generation"
    /\ op.data_points_seconds = <<<<Q(7, 2), Q(619, 500)>>, <<Q(86100, 31), Q(3, 8)>>>>
    /\ out.value = <<<<300, 124>>, <<277700, 38>>>>

----------------------------------------------------------------------------
\* Generation of the daily curve: get_modulated_max_intensity,
\* mod_on_off_times, calculate_intensity_2, calculate_Schedule,
\* scale_data_points_seconds, create_intensity_data_suntime (GenerationSpec).
\*
\* Hours are decimal hours. The trigonometric curve of calculate_intensity_2
\*   1-(math.cos((math.pi/2)*(math.cos(a*cosine_angle)**b))**c)
\* is not computed: for maximum_broadness in the documented range 2.5 - 15
\* its value lies in [0, 1], and the value at each sample is left open among
\* CurveLevels.

\* lmt.TIME_STEP_MINUTES (5 in light_modulation_settings.py), here
TIME_STEP_MINUTES == 240

CurveLevels == {R(0), Q(1, 2), R(1)}

\* max_iterations = 24 * 60 // lmt.TIME_STEP_MINUTES
max_iterations == (24 * 60) \div TIME_STEP_MINUTES

time_in_seconds_of_midnight(i) == 0

\* time_in_seconds of the sample of iteration i (from 0)
time_in_seconds(i) == i * TIME_STEP_MINUTES * 60

\* convert_datetime_to_decimal_hour(current_datetime)
current_hour(i) == Q(time_in_seconds(i), 3600)

\* earliest_power_on -= transition_duration_minutes/60.0
\* latest_power_off += transition_duration_minutes/60.0
PaddedWindow(earliest_power_on, latest_power_off, transition_duration_minutes) ==
    <<QSub(earliest_power_on, QDiv(transition_duration_minutes, R(60))),
      QAdd(latest_power_off, QDiv(transition_duration_minutes, R(60)))>>

\* fraction_of_day divides by (latest_power_off - earliest_power_on):
\* ZeroDivisionError
IntensityRaises(earliest_power_on, latest_power_off, transition_duration_minutes) ==
    LET window == PaddedWindow(earliest_power_on, latest_power_off,
                               transition_duration_minutes)
    IN  window[1] = window[2]

\* if 0.0 < fraction_of_day and fraction_of_day < 1.0:
InsideWindow(fraction_of_day) ==
    QLt(R(0), fraction_of_day) /\ QLt(fraction_of_day, R(1))

\* calculate_intensity_2, curve being the value of the trigonometric curve
calculate_intensity_2(hour, earliest_power_on, latest_power_off, amplitude_modulation, transition_duration_minutes, curve) ==
    LET window          == PaddedWindow(earliest_power_on, latest_power_off,
                                        transition_duration_minutes)
        fraction_of_day == QDiv(QSub(hour, window[1]),
                                QSub(window[2], window[1]))
        intensity       == IF InsideWindow(fraction_of_day)
                           THEN QMax(R(0), curve)
                           ELSE R(0)
    IN  QMul(intensity, amplitude_modulation)

\* calculate_Schedule: the list data_points_seconds it returns, curves[i]
\* being the value of the curve at the sample of iteration i - 1
calculate_Schedule(earliest_power_on, latest_power_off, modulated_max_intensity, transition_duration_minutes, curves) ==
    [i \in 1..max_iterations |->
        <<R(time_in_seconds(i - 1)),
          QMax(R(0), calculate_intensity_2(current_hour(i - 1),
                         earliest_power_on, latest_power_off,
                         modulated_max_intensity, transition_duration_minutes,
                         curves[i]))>>]

\* [(time, intensity*scale_factor) for time, intensity in data_points_seconds]
scale_data_points_seconds(s, scale_factor) ==
    [i \in 1..Len(s) |-> <<Time(s[i]), QMul(Intensity(s[i]), scale_factor)>>]

mod_on_off_times_shift_centered_only(earliest_power_on, latest_power_off, mode, length_proportion, shift_proportion) ==
    LET day_length == QSub(latest_power_off, earliest_power_on)
        noon       == QDiv(QAdd(earliest_power_on, latest_power_off), R(2))
        shift      == QMul(day_length, shift_proportion)
        half       == QDiv(QMul(day_length, length_proportion), R(2))
    IN  CASE mode = "centered" ->
                <<QAdd(QSub(noon, half), shift), QAdd(QAdd(noon, half), shift)>>
          [] mode = "dawn" ->
                <<earliest_power_on,
                  QAdd(earliest_power_on, QMul(day_length, length_proportion))>>
          [] mode = "dusk" ->
                <<QSub(latest_power_off, QMul(day_length, length_proportion)),
                  latest_power_off>>
          [] OTHER -> <<earliest_power_on, latest_power_off>>

\* day_length ... shift ... new_earliest_power_on, new_latest_power_off
mod_on_off_times(earliest_power_on, latest_power_off, mode, length_proportion, shift_proportion) ==
    LET day_length == QSub(latest_power_off, earliest_power_on)
        noon       == QDiv(QAdd(earliest_power_on, latest_power_off), R(2))
        shift      == QMul(day_length, shift_proportion)
        half       == QDiv(QMul(day_length, length_proportion), R(2))
    IN  CASE mode = "centered" ->
                <<QAdd(QSub(noon, half), shift), QAdd(QAdd(noon, half), shift)>>
          [] mode = "dawn" ->
                <<QAdd(earliest_power_on, shift),
                  QAdd(earliest_power_on, QMul(day_length, length_proportion))>>
          [] mode = "dusk" ->
                <<QSub(latest_power_off, QMul(day_length, length_proportion)),
                  QAdd(latest_power_off, shift)>>
          [] OTHER -> <<earliest_power_on, latest_power_off>>

\* Day lengths of 22 June and of 22 December at the configured place,
\* get_summer_solstice_sunset() - get_summer_solstice_sunrise() and
\* get_winter_solstice_sunset() - get_winter_solstice_sunrise(), in hours
summer_solstice_day_length == R(14)
winter_solstice_day_length == R(10)

\* reduction_proportion = (day_length - winter_solstice_day_length) /
\*     (summer_solstice_day_length - winter_solstice_day_length)
ReductionProportion(day_length) ==
    QDiv(QSub(day_length, winter_solstice_day_length),
         QSub(summer_solstice_day_length, winter_solstice_day_length))

\* amplitude_modulation + (1.0 - amplitude_modulation) * reduction_proportion
get_modulated_max_intensity(earliest_power_on, latest_power_off, amplitude_modulation) ==
    QAdd(amplitude_modulation,
         QMul(QSub(R(1), amplitude_modulation),
              ReductionProportion(QSub(latest_power_off, earliest_power_on))))

\* Hours handed to calculate_Schedule as power-on and power-off
PowerOnHours  == {R(6), R(8), R(20)}
PowerOffHours == {R(6), R(18), R(20)}

\* transition_duration_minutes
TransitionMinutes == {R(0), R(60)}

\* modulated_max_intensity
MaxIntensities == {Q(9, 10), R(1)}

Curves == [1..max_iterations -> CurveLevels]

GenInit ==
    /\ AlgIdle /\ SendIdle /\ RedIdle /\ ConIdle

\* calculate_Schedule(current_date, earliest_power_on, latest_power_off,
\*                    modulated_max_intensity, ..., transition_duration_minutes)
ApplyCalculateSchedule ==
    /\ op.f = "none"
    /\ \E on \in PowerOnHours, off \in PowerOffHours,
          maximum \in MaxIntensities, transition \in TransitionMinutes,
          curves \in Curves :
          /\ op' = [f |-> "calculate_Schedule",
                    earliest_power_on |-> on, latest_power_off |-> off,
                    modulated_max_intensity |-> maximum,
                    transition_duration_minutes |-> transition]
          /\ out' = IF IntensityRaises(on, off, transition)
                    THEN Raised("ZeroDivisionError")
                    ELSE Returned(calculate_Schedule(on, off, maximum,
                                                     transition, curves))
    /\ UNCHANGED <<data_points_seconds_1, data_points_seconds_2, sendVars, redVars, conVars>>

\* Sunrise and sunset of the current day, as the suntime library reports
\* them for the configured place (decimal hours)
SunTimes == {<<R(7), R(15)>>, <<R(7), R(17)>>, <<R(6), R(18)>>,
             <<R(5), R(19)>>, <<R(4), R(20)>>}

\* amplitude_modulation=0.9 is the default
AmplitudeModulations == {Q(1, 2), Q(9, 10)}
DefaultAmplitudeModulation == Q(9, 10)

\* get_modulated_max_intensity(current_date, earliest_power_on,
\*                             latest_power_off, amplitude_modulation)
ApplyGetModulatedMaxIntensity ==
    /\ op.f = "none"
    /\ \E sun \in SunTimes, amplitude_modulation \in AmplitudeModulations :
          /\ op' = [f |-> "get_modulated_max_intensity",
                    earliest_power_on |-> sun[1], latest_power_off |-> sun[2],
                    amplitude_modulation |-> amplitude_modulation]
          /\ out' = Returned(get_modulated_max_intensity(sun[1], sun[2],
                                 amplitude_modulation))
    /\ UNCHANGED <<data_points_seconds_1, data_points_seconds_2, sendVars, redVars, conVars>>

\* ('centered', 'dawn', 'dusk')
SupportedModes == {"centered", "dawn", "dusk"}

RequestedModes == SupportedModes \cup {"noon"}

LengthProportions == {Q(-1, 10), R(0), Q(1, 2), Q(3, 2), Q(8, 5)}

ShiftProportions == {R(0), Q(3, 4)}

MaximumVoltages == {R(10)}

\* (0.0 <= length_proportion) and (length_proportion <= 1.5)
LengthProportionValid(length_proportion) ==
    QLe(R(0), length_proportion) /\ QLe(length_proportion, Q(3, 2))

\* create_intensity_data_suntime, for the sunrise and sunset sun of the day
create_intensity_data_suntime(maximum_voltage, mode, length_proportion, shift_proportion, transition_duration_minutes, sun, curves) ==
    IF mode \notin SupportedModes \/ ~LengthProportionValid(length_proportion)
    THEN Returned([result |-> "None", error_logged |-> TRUE])
    ELSE LET modulated_max_intensity ==
                 get_modulated_max_intensity(sun[1], sun[2],
                                             DefaultAmplitudeModulation)
             moved == mod_on_off_times(sun[1], sun[2], mode,
                                       length_proportion, shift_proportion)
         IN  IF IntensityRaises(moved[1], moved[2], transition_duration_minutes)
             THEN Raised("ZeroDivisionError")
             ELSE Returned([result |-> "tuple", error_logged |-> FALSE,
                      data_points_seconds |->
                          scale_data_points_seconds(
                              calculate_Schedule(moved[1], moved[2],
                                  modulated_max_intensity,
                                  transition_duration_minutes, curves),
                              maximum_voltage),
                      earliest_power_on |-> moved[1],
                      latest_power_off |-> moved[2],
                      modulated_max_intensity |-> modulated_max_intensity])

ApplyCreateIntensityDataSuntime ==
    /\ op.f = "none"
    /\ \E maximum_voltage \in MaximumVoltages, mode \in RequestedModes,
          length_proportion \in LengthProportions,
          shift_proportion \in ShiftProportions,
          transition \in TransitionMinutes,
          sun \in {<<R(6), R(18)>>}, curves \in Curves :
          /\ op' = [f |-> "create_intensity_data_suntime",
                    maximum_voltage |-> maximum_voltage, mode |-> mode,
                    length_proportion |-> length_proportion,
                    shift_proportion |-> shift_proportion,
                    transition_duration_minutes |-> transition,
                    sunrise |-> sun[1], sunset |-> sun[2]]
          /\ out' = create_intensity_data_suntime(maximum_voltage, mode,
                        length_proportion, shift_proportion, transition,
                        sun, curves)
    /\ UNCHANGED <<data_points_seconds_1, data_points_seconds_2, sendVars, redVars, conVars>>

ScaleFactors == {R(-1), R(0), Q(1, 2), R(10)}

\* scale_data_points_seconds(data_points_seconds, scale_factor)
ApplyScale ==
    /\ op.f = "none"
    /\ \E a \in AlgSeries, scale_factor \in ScaleFactors :
          /\ op' = [f |-> "scale", data_points_seconds |-> a,
                    scale_factor |-> scale_factor]
          /\ out' = Returned(scale_data_points_seconds(a, scale_factor))
    /\ UNCHANGED <<data_points_seconds_1, data_points_seconds_2, sendVars, redVars, conVars>>

\* shift_proportion: negative values advance, positive values delay
ModShiftProportions == {Q(-1, 25), R(0), Q(1, 25), Q(3, 4)}

\* mod_on_off_times(earliest_power_on, latest_power_off, mode,
\*                  length_proportion, shift_proportion)
ApplyModOnOffTimes ==
    /\ op.f = "none"
    /\ \E sun \in SunTimes, mode \in SupportedModes,
          length_proportion \in LengthProportions,
          shift_proportion \in ModShiftProportions :
          /\ op' = [f |-> "mod_on_off_times",
                    earliest_power_on |-> sun[1], latest_power_off |-> sun[2],
                    mode |-> mode, length_proportion |-> length_proportion,
                    shift_proportion |-> shift_proportion]
          /\ out' = Returned(mod_on_off_times(sun[1], sun[2], mode,
                                 length_proportion, shift_proportion))
    /\ UNCHANGED <<data_points_seconds_1, data_points_seconds_2, sendVars, redVars, conVars>>

GenNext ==
    \/ ApplyCalculateSchedule
    \/ ApplyGetModulatedMaxIntensity
    \/ ApplyCreateIntensityDataSuntime
    \/ ApplyScale
    \/ ApplyModOnOffTimes

GenerationSpec == GenInit /\ [][GenNext]_vars

\* Hour of the sample s
HourOf(s) == QDiv(Time(s), R(3600))

OutsideWindow(s, earliest_power_on, latest_power_off, transition_duration_minutes) ==
    LET window == PaddedWindow(earliest_power_on, latest_power_off,
                               transition_duration_minutes)
    IN  QLt(HourOf(s), window[1]) \/ QLt(window[2], HourOf(s))

\* C16: every series calculate_Schedule returns has all its intensities in
\* [0, maximum intensity given], and every sample whose time lies outside the
\* power window (power-on to power-off, each moved outwards by the transition
\* padding) has intensity exactly 0.
C16_WithinMaxAndDarkOutsideWindow ==
    (op.f = "calculate_Schedule" /\ out.raised = "") =>
        \A i \in 1..Len(out.value) :
            /\ QLe(R(0), Intensity(out.value[i]))
            /\ QLe(Intensity(out.value[i]), op.modulated_max_intensity)
            /\ OutsideWindow(out.value[i], op.earliest_power_on,
                             op.latest_power_off,
                             op.transition_duration_minutes)
                   => Intensity(out.value[i]) = R(0)

\* C17: create_intensity_data_suntime rejects exactly the invalid requests:
\* for a mode other than 'centered', 'dawn', 'dusk' or a length_proportion
\* outside [0, 1.5] it logs the error and returns None, raising nothing and
\* generating no series; for every supported mode and every length_proportion
\* in [0, 1.5], bounds included, it returns a generated series.
C17_RejectsExactlyInvalidRequests ==
    op.f = "create_intensity_data_suntime" =>
        IF \/ op.mode \notin {"centered", "dawn", "dusk"}
           \/ QLt(op.length_proportion, R(0))
           \/ QLt(Q(3, 2), op.length_proportion)
        THEN /\ out.raised = ""
             /\ out.value.result = "None"
             /\ out.value.error_logged
        ELSE /\ out.raised = ""
             /\ out.value.result = "tuple"
             /\ Len(out.value.data_points_seconds) = max_iterations

\* C18: for every day length get_modulated_max_intensity returns a value within
\* [amplitude_modulation, 1]; a day shorter than the winter-solstice reference
\* yields the floor amplitude_modulation and a day longer than the
\* summer-solstice reference yields 1.
C18_WithinFloorAndOne ==
    op.f = "get_modulated_max_intensity" =>
        LET day_length == QSub(op.latest_power_off, op.earliest_power_on)
        IN  /\ QLe(op.amplitude_modulation, out.value)
            /\ QLe(out.value, R(1))
            /\ QLt(day_length, winter_solstice_day_length)
                   => out.value = op.amplitude_modulation
            /\ QLt(summer_solstice_day_length, day_length)
                   => out.value = R(1)

----------------------------------------------------------------------------
\* clean_and_simplify_to_desired_points (ReduceSpec).

\* UnivariateSpline(times, intensities, k=5, s=0) needs more than k points
SplineDegree == 5

\* The values of the fitted spline at the fit times are left open: any of
\* these, negative overshoot included.
SplineLevels == {R(-1), R(2)}

\* np.linspace(start, stop, num)
Linspace(start, stop, num) ==
    IF num = 1 THEN <<start>>
    ELSE [i \in 1..num |->
            QAdd(start, QDiv(QMul(R(i - 1), QSub(stop, start)), R(num - 1)))]

RECURSIVE MinTime(_, _)
MinTime(s, m) ==
    IF s = <<>> THEN m ELSE MinTime(Tail(s), QMin(m, Time(Head(s))))

RECURSIVE MaxTime(_, _)
MaxTime(s, m) ==
    IF s = <<>> THEN m ELSE MaxTime(Tail(s), QMax(m, Time(Head(s))))

\* simplify_data_points_seconds, up to the spline: the fit times, with the
\* values fit_intensities of the spline at them
\*   fit_times = np.linspace(times.min(), times.max(), desired_num_points)
\*   data_points_intensities = list(zip(fit_times, fit_intensities))
SplineFit(data, desired_num_points, fit_intensities) ==
    LET fit_times == Linspace(MinTime(data, Time(data[1])),
                              MaxTime(data, Time(data[1])), desired_num_points)
    IN  [i \in 1..desired_num_points |-> <<fit_times[i], fit_intensities[i]>>]

\* the test of clean_intermediate_flats_from_data_points_seconds on the
FlatOutsideBand(s, i, treshold) ==
    /\ QLt(QAbs(QSub(Intensity(s[i - 1]), Intensity(s[i]))), treshold)
    /\ QLt(QAbs(QSub(Intensity(s[i]), Intensity(s[i + 1]))), treshold)
    /\ ~(QLt(Time(s[i]), R(10800)) \/ QLt(R(82800), Time(s[i])))

\* interior sample i (left and right are the samples next to it in the input)
FlatOrNearMidnight(s, i, treshold) ==
    \/ /\ QLt(QAbs(QSub(Intensity(s[i - 1]), Intensity(s[i]))), treshold)
       /\ QLt(QAbs(QSub(Intensity(s[i]), Intensity(s[i + 1]))), treshold)
    \/ QLt(Time(s[i]), R(10800))
    \/ QLt(R(82800), Time(s[i]))

RECURSIVE KeptFrom(_, _, _)
KeptFrom(s, i, treshold) ==
    IF i > Len(s) - 1 THEN <<>>
    ELSE (IF FlatOrNearMidnight(s, i, treshold) THEN <<>> ELSE <<s[i]>>)
         \o KeptFrom(s, i + 1, treshold)

\* clean_intermediate_flats_from_data_points_seconds(data, treshold=0.001),
\* for a series of at least 3 samples (data_points_seconds[2] is read)
clean_intermediate_flats_from_data_points_seconds(s) ==
    KeptFrom(s, 2, Q(1, 1000))

\* Inputs: full-day series as calculate_Schedule makes them, one sample every
\* TIME_STEP_MINUTES from midnight on, 24 * 60 // TIME_STEP_MINUTES samples.
InputSeries(len, profile) ==
    LET time_step == (1440 \div len) * 60
    IN  [i \in 1..len |->
            <<R((i - 1) * time_step),
              IF profile = "flat" THEN R(1)
              ELSE R(IF i - 1 < len - i THEN i - 1 ELSE len - i)>>]

\* desired_num_points (default 32), here
DesiredNumPoints == 4

RedInit ==
    /\ rpc = "while"
    /\ \E len \in 1..MaxInputLen, profile \in {"flat", "triangle"} :
          data_points_seconds = InputSeries(len, profile)
    /\ number_of_data_points = Len(data_points_seconds)
    /\ potential_data_points_seconds = data_points_seconds
    /\ iterations = 0
    /\ SendIdle /\ AlgIdle /\ ConIdle

WhileOffByOne(potential) == Len(potential) > DesiredNumPoints + 1

WhileNotEmpty(potential) == Len(potential) > 0

WhileAboveOne(potential) == Len(potential) > 1

\* while len(potential_data_points_seconds) > desired_num_points:
While(potential) == Len(potential) > DesiredNumPoints

\* one iteration of the loop
ReduceStep ==
    /\ rpc = "while"
    /\ While(potential_data_points_seconds)
    /\ number_of_data_points' = number_of_data_points - 1
    /\ iterations' = iterations + 1
    /\ IF Len(data_points_seconds) <= SplineDegree
       THEN \* the spline fit fails
            /\ rpc' = "raised"
            /\ UNCHANGED potential_data_points_seconds
       ELSE IF number_of_data_points' < 3
       THEN \* IndexError in clean_intermediate_flats_from_data_points_seconds
            /\ rpc' = "raised"
            /\ UNCHANGED potential_data_points_seconds
       ELSE /\ rpc' = "while"
            /\ \E fit_intensities \in [1..number_of_data_points' -> SplineLevels] :
                \E data_points_intensities \in
                       {SplineFit(data_points_seconds, number_of_data_points',
                                  fit_intensities)} :
                \E simplified \in {GateSplineFit(data_points_intensities)} :
                  potential_data_points_seconds' =
                      clean_intermediate_flats_from_data_points_seconds(simplified)
    /\ UNCHANGED <<data_points_seconds, sendVars, algVars, conVars>>

\* return potential_data_points_seconds
ReduceReturn ==
    /\ rpc = "while"
    /\ ~While(potential_data_points_seconds)
    /\ rpc' = "returned"
    /\ UNCHANGED <<data_points_seconds, number_of_data_points,
                   potential_data_points_seconds, iterations, sendVars, algVars, conVars>>

RedNext == ReduceStep \/ ReduceReturn

ReduceSpec == RedInit /\ [][RedNext]_vars

\* C1: for every input of length >= desired_points on which the spline fit
\* succeeds, the function returns a series of exactly desired_points points,
\* never fewer.
C1_ExactlyDesiredPoints ==
    (rpc = "returned" /\ Len(data_points_seconds) >= DesiredNumPoints)
        => Len(potential_data_points_seconds) = DesiredNumPoints

\* C2: every series the function returns, for an input longer than
\* desired_points in particular, has at most desired_points points.
C2_AtMostDesiredPoints ==
    rpc = "returned" => Len(potential_data_points_seconds) <= DesiredNumPoints

\* the function returned after two iterations of the loop
C2_Witness ==
    /\ rpc = "returned"
    /\ Len(data_points_seconds) > DesiredNumPoints
    /\ iterations = 2
    /\ Len(potential_data_points_seconds) = DesiredNumPoints

\* C19: for every input series shorter than desired_num_points,
\* clean_and_simplify_to_desired_points returns the input series itself,
\* unchanged: the loop body (resampling, gating, elision) never runs on it.
C19_ShortInputReturnedAsIs ==
    Len(data_points_seconds) < DesiredNumPoints =>
        /\ rpc \in {"while", "returned"}
        /\ iterations = 0
        /\ potential_data_points_seconds = data_points_seconds

C19_Witness ==
    /\ rpc = "returned"
    /\ Len(data_points_seconds) = DesiredNumPoints - 1
    /\ potential_data_points_seconds = data_points_seconds
    /\ \E i \in 1..Len(data_points_seconds) :
           QLt(R(0), Intensity(data_points_seconds[i]))

----------------------------------------------------------------------------
\* All the operations on series together (SeriesSpec): the operations of
\* AlgebraSpec on two series, those of GateSpec on one series, those of
\* GenerationSpec on their own arguments and the loop of ReduceSpec.

SeriesInit == AlgInit \/ GateInit \/ GenInit \/ RedInit

SeriesNext ==
    \/ rpc = "idle" /\ AlgNext
    \/ rpc = "idle" /\ data_points_seconds_2 = <<>> /\ GateNext
    \/ rpc = "idle" /\ data_points_seconds_1 = <<>>
                    /\ data_points_seconds_2 = <<>> /\ GenNext
    \/ RedNext

SeriesSpec == SeriesInit /\ [][SeriesNext]_vars

\* C20: the series invariant is preserved by every operation: whenever each
\* input series is sorted strictly ascending by time (no duplicate time), the
\* series returned by calculate_Schedule, parallelize, sum, substract, scale,
\* gate and clean_and_simplify_to_desired_points is too.
C20_SeriesInvariantPreserved ==
    /\ (op.f \in {"sum", "substract", "substract_of_sum"}
           /\ IsAscending(data_points_seconds_1)
           /\ IsAscending(data_points_seconds_2))
          => IsAscending(out.value)
    /\ (op.f = "parallelize"
           /\ IsAscending(op.data_points_seconds_1)
           /\ IsAscending(op.data_points_seconds_2))
          => IsAscending(out.value[1]) /\ IsAscending(out.value[2])
    /\ (op.f \in {"gate", "gate_again", "gate_numpy"} /\ out.raised = ""
           /\ IsAscending(data_points_seconds_1))
          => IsAscending(out.value)
    /\ (op.f = "scale" /\ IsAscending(op.data_points_seconds))
          => IsAscending(out.value)
    /\ (op.f = "calculate_Schedule" /\ out.raised = "")
          => IsAscending(out.value)
    /\ (rpc = "returned" /\ IsAscending(data_points_seconds))
          => IsAscending(potential_data_points_seconds)

C20_Witness ==
    /\ op.f = "substract"
    /\ Len(data_points_seconds_1) = MaxLen
    /\ Len(data_points_seconds_2) = MaxLen
    /\ TimesOf(data_points_seconds_1) # TimesOf(data_points_seconds_2)
    /\ Len(out.value) > 1
    /\ IsAscending(out.value)

----------------------------------------------------------------------------
\* clean_intermediate_flats_from_data_points_seconds on its own (ElisionSpec).

\* Longest series given to the elision
MaxElisionLen == 5

\* Times in seconds from midnight; 3600 and 85000 lie before 03:00 and after
\* 23:00
ElisionTimes == {R(0), R(3600), R(20000), R(40000), R(60000), R(85000)}

ElisionLevels == {R(0), Q(1, 2000), R(1)}

ElisionSeries == SeriesOver(ElisionTimes, ElisionLevels, MaxElisionLen)

ElisionInit ==
    /\ data_points_seconds_1 \in ElisionSeries
    /\ data_points_seconds_2 = <<>>
    /\ op = [f |-> "none"]
    /\ out = Returned(<<>>)
    /\ SendIdle /\ RedIdle /\ ConIdle

\* data_points_seconds[0][1] and data_points_seconds[2][1] are read first:
\* IndexError for fewer than 3 samples
CleanCall(s) ==
    IF Len(s) < 3
    THEN Raised("IndexError")
    ELSE Returned(clean_intermediate_flats_from_data_points_seconds(s))

ApplyCleanFlats ==
    /\ op.f = "none"
    /\ op' = [f |-> "clean_flats"]
    /\ out' = CleanCall(data_points_seconds_1)
    /\ UNCHANGED <<data_points_seconds_1, data_points_seconds_2, sendVars, redVars, conVars>>

\* the function applied to its own result
ApplyCleanFlatsAgain ==
    /\ op.f = "clean_flats"
    /\ out.raised = ""
    /\ op' = [f |-> "clean_flats_again", first |-> out.value]
    /\ out' = CleanCall(out.value)
    /\ UNCHANGED <<data_points_seconds_1, data_points_seconds_2, sendVars, redVars, conVars>>

ElisionNext == ApplyCleanFlats \/ ApplyCleanFlatsAgain

ElisionSpec == ElisionInit /\ [][ElisionNext]_vars

\* abs(left_intensity-intensity) < treshold and
\* abs(intensity-right_intensity) < treshold, for treshold=0.001
Flat(s, i) ==
    /\ QLt(QAbs(QSub(Intensity(s[i - 1]), Intensity(s[i]))), Q(1, 1000))
    /\ QLt(QAbs(QSub(Intensity(s[i]), Intensity(s[i + 1]))), Q(1, 1000))

\* time < 10800 or time > 82800
NearMidnight(s, i) ==
    QLt(Time(s[i]), R(10800)) \/ QLt(R(82800), Time(s[i]))

\* the sample i of s has been dropped from the result
Dropped(s, i, result) == Time(s[i]) \notin TimesOf(result)

C22_KeepsFirstAndLast ==
    (op.f = "clean_flats" /\ out.raised = "") =>
        /\ Len(out.value) >= 2
        /\ out.value[1] = data_points_seconds_1[1]
        /\ out.value[Len(out.value)]
              = data_points_seconds_1[Len(data_points_seconds_1)]

\* C23: the output of the elision is a fixed point of the elision: for every
\* input series of at least 3 points, the function applied to its own output
\* returns that output, with no further point removed.
C23_ElisionFixedPoint ==
    (op.f = "clean_flats_again" /\ Len(data_points_seconds_1) >= 3) =>
        /\ out.raised = ""
        /\ out.value = op.first

\* C24: the reduction loop terminates: for every input of length
\* L > desired_num_points >= 1 on which the spline fit succeeds, it runs at
\* most L - desired_num_points iterations, the resampling size
\* number_of_data_points goes down by exactly 1 per iteration and never
\* reaches 0 or less, and nothing is raised.
C24_LoopBounded ==
    (/\ Len(data_points_seconds) > DesiredNumPoints
     /\ DesiredNumPoints >= 1
     /\ Len(data_points_seconds) > SplineDegree) =>
        /\ rpc \in {"while", "returned"}
        /\ iterations <= Len(data_points_seconds) - DesiredNumPoints
        /\ number_of_data_points = Len(data_points_seconds) - iterations
        /\ number_of_data_points >= 1
        /\ (rpc = "while"
              /\ iterations = Len(data_points_seconds) - DesiredNumPoints)
             => ~While(potential_data_points_seconds)

C24_Witness ==
    /\ rpc = "returned"
    /\ Len(data_points_seconds) > DesiredNumPoints
    /\ Len(data_points_seconds) > SplineDegree
    /\ iterations >= 2

\* the command query has been sent for the schedule s
Issued(s, query) == \E i \in 1..Len(sent[s]) : sent[s][i] = query

\* C25: whenever set-timetable has been issued for a schedule, the
\* frequency-recovery poll runs and returns before the first command of the
\* next schedule is sent, whatever the outcome of the later steps: the loop
\* goes on to the next schedule only from the return of the poll.
C25_PollAfterTimetable ==
    [][(pc # "for" /\ pc' = "for" /\ Issued(idx, "schedule:set-timetable")')
          => (pc = "wait3" /\ wait_status')]_vars

\* the transition step of the schedule s was attempted and succeeded
Acknowledged(s, step) ==
    \E i \in 1..Len(log[s]) : log[s][i] = [step |-> step, ok |-> TRUE]

\* C27: a timetable is never written to a schedule that may be enabled:
\* set-timetable is sent for a schedule only after, in the same pass, the
\* controller reported it disabled or acknowledged the disable command, and
\* the enable command is sent only after set-parameter, set-timetable and
\* set-resolution were all acknowledged.
C27_TimetableOnlyWhileDisabled ==
    \A s \in Schedules :
        /\ Issued(s, "schedule:set-timetable") => Acknowledged(s, "disable")
        /\ Issued(s, "schedule:set-enabled,1") =>
              /\ Acknowledged(s, "set-parameter")
              /\ Acknowledged(s, "set-timetable")
              /\ Acknowledged(s, "set-resolution")

\* a schedule that was enabled has been disabled, written and enabled again
C27_Witness ==
    \E s \in Schedules :
        /\ Issued(s, "schedule:set-enabled,0")
        /\ Issued(s, "schedule:set-timetable")
        /\ Issued(s, "schedule:set-enabled,1")

\* C26: for every sunrise, sunset, length_proportion and shift_proportion,
\* mod_on_off_times in mode 'dawn' returns a window that starts at sunrise and
\* in mode 'dusk' a window that ends at sunset; the shift proportion moves
\* the window only in mode 'centered'.
C26_DawnAtSunriseDuskAtSunset ==
    op.f = "mod_on_off_times" =>
        /\ op.mode = "dawn" => out.value[1] = op.earliest_power_on
        /\ op.mode = "dusk" => out.value[2] = op.latest_power_off

\* C26, amended: in mode 'dawn' the window starts at sunrise moved by
\* shift_proportion day lengths (at sunrise when shift_proportion is 0) and
\* ends length_proportion day lengths after sunrise; in mode 'dusk' it ends
\* at sunset moved by shift_proportion day lengths (at sunset when
\* shift_proportion is 0) and starts length_proportion day lengths before
\* sunset; in mode 'centered' the shift moves both ends, the window being
\* length_proportion day lengths wide around noon moved by the shift.
C26_ShiftMovesOneEnd ==
    op.f = "mod_on_off_times" =>
        LET day_length == QSub(op.latest_power_off, op.earliest_power_on)
            moved      == QMul(day_length, op.shift_proportion)
            width      == QMul(day_length, op.length_proportion)
        IN  /\ op.mode = "dawn" =>
                  /\ out.value[1] = QAdd(op.earliest_power_on, moved)
                  /\ out.value[2] = QAdd(op.earliest_power_on, width)
            /\ op.mode = "dusk" =>
                  /\ out.value[2] = QAdd(op.latest_power_off, moved)
                  /\ out.value[1] = QSub(op.latest_power_off, width)
            /\ op.mode = "centered" =>
                  /\ QSub(out.value[2], out.value[1]) = width
                  /\ QAdd(out.value[1], out.value[2])
                        = QAdd(QAdd(op.earliest_power_on, op.latest_power_off),
                               QMul(R(2), moved))

C26_Witness ==
    /\ op.f = "mod_on_off_times"
    /\ op.mode = "dawn"
    /\ op.shift_proportion = Q(1, 25)
    /\ QLt(op.earliest_power_on, out.value[1])
    /\ QLt(out.value[1], out.value[2])

----------------------------------------------------------------------------
\* The websocket to the controller: open_ws_on_cc, close_ws_on_cc and
\* execute_command with send_via_server=False (ConnectionSpec).
\* websocket.create_connection, send, recv and close are taken to succeed.

\* most connections created and most queries sent in one run of the model
MaxConnections == 3
MaxQueries == 4

\* websocket.create_connection(...): the new connection is number created + 1
Connection(to, id) == [to |-> to, id |-> id]

NeedsOpenAlways(ws) == TRUE

\* if ws_on_cc is None:
NeedsOpen(ws) == ws = 0

\* open_ws_on_cc()
open_ws_on_cc ==
    IF NeedsOpen(ws_on_cc)
    THEN /\ created < MaxConnections
         /\ created' = created + 1
         /\ ws_on_cc' = created + 1
         /\ connections' = connections \cup {Connection("cc", created + 1)}
    ELSE UNCHANGED <<ws_on_cc, created, connections>>

\* execute_command(query): if (ws_on_cc is None): open_ws_on_cc();
\* ws_on_cc.send(query); response=ws_on_cc.recv()
execute_command(query) ==
    /\ Len(wire) < MaxQueries
    /\ open_ws_on_cc
    /\ wire' = Append(wire, [to |-> "cc", id |-> ws_on_cc', query |-> query,
                             held |-> Connection("cc", ws_on_cc') \in connections'])

ConInit ==
    /\ ConIdle /\ SendIdle /\ AlgIdle /\ RedIdle

OpenWsOnCc ==
    /\ mpc = "idle"
    /\ open_ws_on_cc
    /\ UNCHANGED <<ws_on_server, token, wire, logged_in, mpc, journal,
                   sendVars, algVars, redVars>>

\* close_ws_on_cc()
close_ws_on_cc ==
    IF ws_on_cc # 0
    THEN /\ connections' = connections \ {Connection("cc", ws_on_cc)}
         /\ ws_on_cc' = 0
    ELSE UNCHANGED <<ws_on_cc, connections>>

CloseWsOnCc ==
    /\ mpc = "idle"
    /\ close_ws_on_cc
    /\ UNCHANGED <<ws_on_server, token, created, wire, logged_in, mpc, journal,
                   sendVars, algVars, redVars>>

\* a direct call of execute_command
ExecuteCommand ==
    /\ mpc = "idle"
    /\ execute_command("query")
    /\ UNCHANGED <<ws_on_server, token, logged_in, mpc, journal,
                   sendVars, algVars, redVars>>

ConNext == OpenWsOnCc \/ CloseWsOnCc \/ ExecuteCommand

ConnectionSpec == ConInit /\ [][ConNext]_vars

\* the connections to the controller that are open
HeldOnCc == {c \in connections : c.to = "cc"}

\* C28: for every sequence of open_ws_on_cc, close_ws_on_cc and direct
\* execute_command calls at most one controller connection is held at any
\* time: open_ws_on_cc creates one only when none is held, close_ws_on_cc
\* releases the held one and does nothing when none is held, execute_command
\* always sends on a held connection, opening one first when none is held.
C28_AtMostOneConnection ==
    /\ [](/\ Cardinality(HeldOnCc) <= 1
          /\ HeldOnCc = IF ws_on_cc = 0 THEN {} ELSE {Connection("cc", ws_on_cc)}
          /\ \A i \in 1..Len(wire) : wire[i].to = "cc" => wire[i].held)
    /\ [][/\ created' # created => (ws_on_cc = 0 /\ ws_on_cc' = created')
          /\ wire' # wire => (ws_on_cc' # 0 /\ wire'[Len(wire')].id = ws_on_cc'
                               /\ (ws_on_cc # 0 => ws_on_cc' = ws_on_cc))
          /\ (ws_on_cc # 0 /\ ws_on_cc' = 0) => HeldOnCc' = {}]_vars

\* a query sent on a second connection, opened by execute_command after
\* the first one was closed
C28_Witness ==
    /\ Len(wire) >= 2
    /\ wire[1].id = 1
    /\ wire[Len(wire)].id = 2
    /\ ws_on_cc = 2
    /\ connections = {Connection("cc", 2)}

----------------------------------------------------------------------------
\* main of light_modulation.py from the test of args.noquery on (MainSpec).
\* The schedules were produced; the queries of send_schedules_to_crescontrol
\* are the actions of Next.

\* logging.<level>(...) and the other things main does besides queries
Journal(event) == journal' = Append(journal, event)

\* the response of the controller to system:cpu-id, as
\* 'lmt.CRESCONTROL_CPU_ID in output' tells them apart
CpuIdOutputs == {"with cpu id", "without cpu id"}

\* test_crescontrol_online(): the warning of the else branch formats the
\* name response, which is bound neither in the function nor in the module
test_crescontrol_online(output) ==
    IF output = "with cpu id" THEN Returned(TRUE) ELSE Raised("NameError")

MainInit ==
    /\ pc = "for"
    /\ idx = 0
    /\ status = FALSE
    /\ global_status = TRUE
    /\ wait_status = FALSE
    /\ sent = [s \in Schedules |-> <<>>]
    /\ log = [s \in Schedules |-> <<>>]
    /\ samples = <<>>
    /\ AlgIdle /\ RedIdle
    /\ ws_on_cc = 0 /\ ws_on_server = 0 /\ token = "None"
    /\ created = 0 /\ connections = {} /\ wire = <<>> /\ logged_in = {}
    /\ mpc = "if not args.noquery"
    /\ journal = <<>>

\* if not args.noquery: ... else: logging.info('No queries sent ...')
IfNotNoquery ==
    /\ mpc = "if not args.noquery"
    /\ \E noquery \in BOOLEAN :
          IF noquery
          THEN Journal("no queries sent") /\ mpc' = "end = time.time()"
          ELSE Journal("sending from") /\ mpc' = "test_crescontrol_online"
    /\ UNCHANGED <<ws_on_cc, ws_on_server, token, created, connections, wire,
                   logged_in, sendVars, algVars, redVars>>

\* status = lmlc.test_crescontrol_online() and the branch on status
TestCrescontrolOnline ==
    /\ mpc = "test_crescontrol_online"
    /\ execute_command("system:cpu-id")
    /\ \E output \in CpuIdOutputs :
          LET result == test_crescontrol_online(output) IN
          IF result.raised # ""
          THEN /\ journal' = journal \o <<"response " \o output>>
               /\ mpc' = "aborted"
          ELSE IF result.value
          THEN /\ journal' = journal \o <<"response " \o output, "online">>
               /\ mpc' = "set_crescontrol_timezone"
          ELSE /\ journal' = journal \o <<"response " \o output,
                                           "unable to reach", "nothing done">>
               /\ mpc' = "close_ws_on_cc"
    /\ UNCHANGED <<ws_on_server, token, logged_in, sendVars, algVars, redVars>>

\* response = lmlc.set_crescontrol_timezone(lmt.TIMEZONE)
SetCrescontrolTimezone ==
    /\ mpc = "set_crescontrol_timezone"
    /\ execute_command("time:timezone")
    /\ \E set \in BOOLEAN :
          Journal(IF set THEN "time zone set" ELSE "problem setting the timezone")
    /\ mpc' = "send_schedules_to_crescontrol"
    /\ UNCHANGED <<ws_on_server, token, logged_in, sendVars, algVars, redVars>>

\* status2 = lmlc.send_schedules_to_crescontrol(schedule_dic), one query
SendSchedulesStep ==
    /\ mpc = "send_schedules_to_crescontrol"
    /\ Next

\* send_schedules_to_crescontrol returned
SendSchedulesReturn ==
    /\ mpc = "send_schedules_to_crescontrol"
    /\ pc = "return"
    /\ Journal(IF global_status THEN "schedules sent" ELSE "problem sending schedules")
    /\ mpc' = "system:save()"
    /\ UNCHANGED <<ws_on_cc, ws_on_server, token, created, connections, wire,
                   logged_in, sendVars, algVars, redVars>>

\* the ValueError of wait_for_cc_frequency_recovery is not caught
SendSchedulesRaise ==
    /\ mpc = "send_schedules_to_crescontrol"
    /\ pc = "raised"
    /\ mpc' = "aborted"
    /\ UNCHANGED <<ws_on_cc, ws_on_server, token, created, connections, wire,
                   logged_in, journal, sendVars, algVars, redVars>>

\* response = lmlc.execute_command_and_report('system:save()')
SystemSave ==
    /\ mpc = "system:save()"
    /\ execute_command("system:save()")
    /\ \E saved \in BOOLEAN :
          Journal(IF saved THEN "configuration saved" ELSE "save attempt failed")
    /\ mpc' = "close_ws_on_cc"
    /\ UNCHANGED <<ws_on_server, token, logged_in, sendVars, algVars, redVars>>

\* lmlc.close_ws_on_cc()
MainCloseWsOnCc ==
    /\ mpc = "close_ws_on_cc"
    /\ close_ws_on_cc
    /\ Journal("closed")
    /\ mpc' = "end = time.time()"
    /\ UNCHANGED <<ws_on_server, token, created, wire, logged_in,
                   sendVars, algVars, redVars>>

\* logging.info(f'Finished in ... secs.')
FinishedIn ==
    /\ mpc = "end = time.time()"
    /\ Journal("finished in")
    /\ mpc' = "if not args.nomail"
    /\ UNCHANGED <<ws_on_cc, ws_on_server, token, created, connections, wire,
                   logged_in, sendVars, algVars, redVars>>

\* if not args.nomail: ... lmlc.send_mail(fileContent) else: ...
IfNotNomail ==
    /\ mpc = "if not args.nomail"
    /\ \E nomail \in BOOLEAN :
          Journal(IF nomail THEN "no mail sent" ELSE "send_mail")
    /\ mpc' = "end"
    /\ UNCHANGED <<ws_on_cc, ws_on_server, token, created, connections, wire,
                   logged_in, sendVars, algVars, redVars>>

MainNext ==
    \/ IfNotNoquery
    \/ TestCrescontrolOnline
    \/ SetCrescontrolTimezone
    \/ SendSchedulesStep \/ SendSchedulesReturn \/ SendSchedulesRaise
    \/ SystemSave
    \/ MainCloseWsOnCc
    \/ FinishedIn
    \/ IfNotNomail

MainSpec == MainInit /\ [][MainNext]_vars

\* the events of the journal
Events == {journal[i] : i \in 1..Len(journal)}

\* the queries sent to the controller outside send_schedules_to_crescontrol
Queries == {wire[i].query : i \in 1..Len(wire)}

\* C29: when the online test fails (the response to system:cpu-id lacks
\* the configured CPU id), main sends no timezone, schedule or save command,
\* logs that nothing was done, closes the controller connection and goes on
\* to the end of the script (timing log and mail step) without aborting.
C29_OfflineSkipsAndFinishes ==
    "response without cpu id" \in Events =>
        /\ mpc # "aborted"
        /\ Queries = {"system:cpu-id"}
        /\ \A s \in Schedules : sent[s] = <<>>
        /\ "nothing done" \in Events
        /\ mpc \in {"end = time.time()", "if not args.nomail", "end"} =>
              ("closed" \in Events /\ ws_on_cc = 0)
        /\ mpc = "end" => "finished in" \in Events

----------------------------------------------------------------------------
\* execute_command with send_via_server=True (ServerSpec): the connection of
\* the controller to the remote server, the websocket to the server and the
\* login on it. The controller and the server are the environment.

\* connect_cc_to_server(): the status it returns and the global token it
\* leaves, after its dialogue with the controller
ConnectOutcomes == [status : BOOLEAN, token : {"None", "token"}]

\* what root:get-token can answer
Tokens == {"token", "invalid"}

Sent(to, id, query) == [to |-> to, id |-> id, query |-> query, held |-> TRUE]

ServerInit ==
    /\ ConIdle /\ SendIdle /\ AlgIdle /\ RedIdle

\* execute_command(query, send_via_server=True) by a caller
ExecuteCommandViaServer ==
    /\ mpc = "idle"
    /\ Len(wire) < MaxQueries
    /\ \E connect \in ConnectOutcomes, welcome \in BOOLEAN,
          got_token \in Tokens, login_status \in BOOLEAN :
          LET \* if (ws_on_server is None):
              none_held == ws_on_server = 0
              \* if token is None: status = connect_cc_to_server()
              connects == none_held /\ token = "None"
              cc == IF connects /\ ws_on_cc = 0 THEN created + 1 ELSE ws_on_cc
              created_1 == IF connects /\ ws_on_cc = 0 THEN created + 1 ELSE created
              token_1 == IF connects THEN connect.token ELSE token
              \* if not status: return response, time_taken
              stopped == connects /\ ~connect.status
              \* open_ws_on_server()
              opens == none_held /\ ~stopped
              server == IF opens THEN created_1 + 1 ELSE ws_on_server
              \* status = login_to_server()
              gets_token == opens /\ token_1 = "None"
              token_2 == IF gets_token THEN got_token ELSE token_1
              logs_in == opens /\ login_status
              \* if not status: return response, time_taken
              sends == ~none_held \/ logs_in
          IN  /\ (IF opens THEN created_1 + 1 ELSE created_1) <= MaxConnections
              /\ created' = IF opens THEN created_1 + 1 ELSE created_1
              /\ ws_on_cc' = cc
              /\ ws_on_server' = server
              /\ token' = token_2
              /\ connections' = connections
                    \cup (IF connects THEN {Connection("cc", cc)} ELSE {})
                    \cup (IF opens THEN {Connection("server", server)} ELSE {})
              /\ logged_in' = IF logs_in THEN logged_in \cup {server} ELSE logged_in
              /\ wire' = wire
                    \o (IF connects
                        THEN <<Sent("cc", cc, "websocket:remote:connected")>> ELSE <<>>)
                    \o (IF gets_token
                        THEN <<Sent("server", server, "root:get-token")>> ELSE <<>>)
                    \o (IF opens
                        THEN <<Sent("server", server, "root:login")>> ELSE <<>>)
                    \o (IF sends
                        THEN <<Sent("server", server, "query")>> ELSE <<>>)
              \* open_ws_on_server(): status = ('welcome' in output)
              /\ journal' = journal
                    \o (IF opens
                        THEN <<IF welcome THEN "websocket connection created"
                                          ELSE "websocket connection failed">>
                        ELSE <<>>)
    /\ UNCHANGED <<mpc, sendVars, algVars, redVars>>

\* close_ws_on_server()
CloseWsOnServer ==
    /\ mpc = "idle"
    /\ IF ws_on_server # 0
       THEN /\ connections' = connections \ {Connection("server", ws_on_server)}
            /\ ws_on_server' = 0
       ELSE UNCHANGED <<ws_on_server, connections>>
    /\ UNCHANGED <<ws_on_cc, token, created, wire, logged_in, mpc, journal,
                   sendVars, algVars, redVars>>

ServerNext == ExecuteCommandViaServer \/ CloseWsOnServer

ServerSpec == ServerInit /\ [][ServerNext]_vars

\* C30: on the remote-server path a caller's query is sent on the server
\* websocket only after login_to_server succeeded on that websocket; if the
\* greeting or the login failed, no later call sends a query on that
\* connection without a successful login first.
C30_QueryOnlyAfterLogin ==
    \A i \in 1..Len(wire) :
        (wire[i].to = "server" /\ wire[i].query = "query")
            => wire[i].id \in logged_in

====
